---------------------------- MODULE Spec2Model ----------------------------
(***************************************************************************)
(* Model of ContentProcessor (de_exam_bot/processing/content_processor.py). *)
(*                                                                         *)
(* A Python str is a sequence of one-character strings.  A Page Source     *)
(* (Selenium driver) is a record of what its getters and element queries   *)
(* return, and which of its calls throw.                                    *)
(* process_page is a run of steps: one for the raw extraction, one for     *)
(* every element query, one for every loop iteration, one for the return.  *)
(***************************************************************************)
EXTENDS Integers, Sequences, FiniteSets, TLC

(***************************************************************************)
(* Python values                                                           *)
(***************************************************************************)

\* Python's None, as returned by get_attribute for an absent attribute.
None == <<"None">>

\* `x or d` for a value that is a str or None.
Or(x, d) == IF x = None \/ x = <<>> THEN d ELSE x

UpperCase == <<"A","B","C","D","E","F","G","H","I","J","K","L","M",
               "N","O","P","Q","R","S","T","U","V","W","X","Y","Z">>

LowerCase == <<"a","b","c","d","e","f","g","h","i","j","k","l","m",
               "n","o","p","q","r","s","t","u","v","w","x","y","z">>

Digits == {"0","1","2","3","4","5","6","7","8","9"}

\* The characters str.strip() removes and \s matches.
Whitespace == {" ", "\t", "\n", "\r", "\f"}

LowerChar(c) ==
    IF \E j \in 1..26 : UpperCase[j] = c
    THEN LowerCase[CHOOSE j \in 1..26 : UpperCase[j] = c]
    ELSE c

\* str.lower()
Lower(s) == [j \in 1..Len(s) |-> LowerChar(s[j])]

IsLetter(c) == \E j \in 1..26 : UpperCase[j] = c \/ LowerCase[j] = c

RECURSIVE LStrip(_)
LStrip(s) ==
    IF s # <<>> /\ Head(s) \in Whitespace THEN LStrip(Tail(s)) ELSE s

RECURSIVE RStrip(_)
RStrip(s) ==
    IF s # <<>> /\ s[Len(s)] \in Whitespace
    THEN RStrip(SubSeq(s, 1, Len(s) - 1))
    ELSE s

\* str.strip()
Strip(s) == RStrip(LStrip(s))

\* str.startswith(p)
StartsWith(s, p) == Len(p) <= Len(s) /\ SubSeq(s, 1, Len(p)) = p

\* `sub in s`
Contains(s, sub) ==
    \E j \in 0..(Len(s) - Len(sub)) : SubSeq(s, j + 1, j + Len(sub)) = sub

\* s[:n]
Prefix(s, n) == SubSeq(s, 1, IF Len(s) < n THEN Len(s) ELSE n)

(***************************************************************************)
(* Regular expressions (module re), as far as the processor uses them: a   *)
(* pattern is a sequence of quantified one-character items; a match is     *)
(* found by backtracking, greedy items trying the longest run first and    *)
(* lazy items the shortest.                                                *)
(***************************************************************************)

Item(k, c, lo, hi, lazy) == [k |-> k, c |-> c, min |-> lo, max |-> hi, lazy |-> lazy]

\* One literal character.
Ch(c) == Item("lit", c, 1, 1, FALSE)

\* A literal string.
Lit(s) == [j \in 1..Len(s) |-> Ch(s[j])]

\* \d{n} ; max = -1 stands for "no upper limit".
DigitN(n) == Item("digit", "", n, n, FALSE)
\* \d+ and \d{n,}
DigitMin(n) == Item("digit", "", n, -1, FALSE)
\* \w+
WordPlus == Item("word", "", 1, -1, FALSE)
\* .*?
DotStarLazy == Item("dot", "", 0, -1, TRUE)
\* [;&]
SemiAmp == Item("semiamp", "", 1, 1, FALSE)
\* \s+ and \s*
SpacePlus == Item("space", "", 1, -1, FALSE)
SpaceStar == Item("space", "", 0, -1, FALSE)
\* [ \t]+
BlankPlus == Item("blank", "", 1, -1, FALSE)
\* \n and \n+
NewlineOne == Item("lit", "\n", 1, 1, FALSE)
NewlinePlus == Item("lit", "\n", 1, -1, FALSE)

\* Whether character c is in the class of item a (ic: re.IGNORECASE).
ClassMatch(a, c, ic) ==
    CASE a.k = "lit"     -> IF ic THEN LowerChar(c) = LowerChar(a.c) ELSE c = a.c
      [] a.k = "digit"   -> c \in Digits
      [] a.k = "word"    -> IsLetter(c) \/ c \in Digits \/ c = "_"
      [] a.k = "dot"     -> c # "\n"
      [] a.k = "semiamp" -> c \in {";", "&"}
      [] a.k = "space"   -> c \in Whitespace
      [] a.k = "blank"   -> c \in {" ", "\t"}

\* The longest run of characters of a's class from position i (at most a.max).
RECURSIVE Run(_, _, _, _, _)
Run(a, s, i, n, ic) ==
    IF i + n <= Len(s) /\ (a.max = -1 \/ n < a.max) /\ ClassMatch(a, s[i + n], ic)
    THEN Run(a, s, i, n + 1, ic)
    ELSE n

\* The position after the match of items k.. of p at position i of s; 0 if none.
RECURSIVE Match(_, _, _, _, _), TryCount(_, _, _, _, _, _, _)
Match(p, k, s, i, ic) ==
    IF k > Len(p) THEN i
    ELSE LET a   == p[k]
             run == Run(a, s, i, 0, ic)
         IN  IF run < a.min THEN 0
             ELSE IF run = a.min THEN Match(p, k + 1, s, i + run, ic)
             ELSE IF a.lazy THEN TryCount(p, k, s, i, a.min, run, ic)
                  ELSE TryCount(p, k, s, i, run, a.min, ic)

\* Try the counts from n to last (upwards or downwards), first success wins.
TryCount(p, k, s, i, n, last, ic) ==
    LET r == Match(p, k + 1, s, i + n, ic)
    IN  IF r # 0 THEN r
        ELSE IF n = last THEN 0
        ELSE TryCount(p, k, s, i, IF n < last THEN n + 1 ELSE n - 1, last, ic)

\* re.sub(p, repl, s, flags): the leftmost non-overlapping matches, left to
\* right; what stands between two matches is copied.  j is the first position
\* from i on where p matches a non-empty string, 0 if there is none.
RECURSIVE SubFrom(_, _, _, _, _)
SubFrom(p, repl, s, i, ic) ==
    LET starts == {j \in i..Len(s) : Match(p, 1, s, j, ic) > j}
        j      == IF starts = {} THEN 0
                  ELSE CHOOSE first \in starts : \A m \in starts : first <= m
    IN  IF j = 0 THEN SubSeq(s, i, Len(s))
        ELSE SubSeq(s, i, j - 1) \o repl \o SubFrom(p, repl, s, Match(p, 1, s, j, ic), ic)

ReSub(p, repl, s, ic) == SubFrom(p, repl, s, 1, ic)


(***************************************************************************)
(* Exceptions: the outcome of evaluating a block is a returned value or a   *)
(* raised exception carrying its message.                                  *)
(***************************************************************************)

Return(v) == [exc |-> FALSE, val |-> v, msg |-> <<>>]

Raise(m) == [exc |-> TRUE, val |-> <<>>, msg |-> m]

\* The same with a handler that does not catch the exception.
TryExceptUncaught(body, onError) == body

\* try: <body> / except Exception as e: return <handler value>

TryExcept(body, onError) == IF body.exc THEN Return(onError) ELSE body

(***************************************************************************)
(* Configuration (_get_default_config, __init__)                           *)
(***************************************************************************)

\* A regular expression re.compile rejects; re.sub raises re.error on it.
Malformed == <<Item("malformed", "", 0, 0, FALSE)>>

DateTimePatterns ==
    << <<DigitN(4), Ch("-"), DigitN(2), Ch("-"), DigitN(2)>>,
       <<DigitN(2), Ch("/"), DigitN(2), Ch("/"), DigitN(4)>>,
       <<DigitN(2), Ch("."), DigitN(2), Ch("."), DigitN(4)>>,
       <<DigitN(2), Ch(":"), DigitN(2), Ch(":"), DigitN(2)>>,
       <<DigitN(2), Ch(":"), DigitN(2)>>,
       Lit(<<"t","i","m","e","s","t","a","m","p">>) \o <<DotStarLazy, DigitMin(1)>>,
       Lit(<<"l","a","s","t">>) \o <<DotStarLazy>>
           \o Lit(<<"u","p","d","a","t","e","d">>) \o <<DotStarLazy, DigitMin(1)>> >>

\* name=.*?[;&]
Param(name) == Lit(name) \o <<Ch("="), DotStarLazy, SemiAmp>>

\* name.*?=.*?[;&]
Token(name) == Lit(name) \o <<DotStarLazy, Ch("="), DotStarLazy, SemiAmp>>

TrackingPatterns ==
    << Param(<<"_","g","a">>), Param(<<"_","g","i","d">>),
       Token(<<"_","_","u","t","m">>),
       Param(<<"f","b","c","l","i","d">>), Param(<<"g","c","l","i","d">>) >>

SessionPatterns ==
    << Token(<<"s","e","s","s","i","o","n","I","d">>),
       Token(<<"P","H","P","S","E","S","S","I","D">>),
       Token(<<"J","S","E","S","S","I","O","N","I","D">>),
       Token(<<"A","S","P",".","N","E","T","_","S","e","s","s","i","o","n","I","d">>) >>

SecurityCachePatterns ==
    << Token(<<"c","s","r","f","t","o","k","e","n">>),
       Token(<<"_","t","o","k","e","n">>),
       Lit(<<"c","a","c","h","e","_">>) \o <<WordPlus>>,
       <<Ch("v"), Ch("="), DigitMin(10)>>,
       <<Ch("_"), Ch("="), DigitMin(10)>>,
       <<Ch("c"), Ch("b"), Ch("="), DigitMin(1)>> >>

\* _get_default_config()['noise_patterns'], in registry order.
DefaultNoisePatterns ==
    DateTimePatterns \o TrackingPatterns \o SessionPatterns \o SecurityCachePatterns

\* A caller's override list [r'cb=\d+', '(']: its second pattern is malformed.
BrokenNoisePatterns ==
    << <<Ch("c"), Ch("b"), Ch("="), DigitMin(1)>>, Malformed >>

\* The pattern list self.noise_patterns refers to.
PatternsOf(name) ==
    CASE name = "default" -> DefaultNoisePatterns
      [] name = "broken"  -> BrokenNoisePatterns

\* _get_default_config(); the three lists by name.
DefaultConfig ==
    [noise_patterns      |-> "default",
     german_patterns     |-> "default",
     important_selectors |-> "default",
     processing_options  |-> [max_elements_per_selector |-> 10,
                              max_text_length           |-> 500,
                              max_matches_per_pattern   |-> 10,
                              extract_metadata          |-> TRUE,
                              generate_hashes           |-> TRUE]]

\* ContentProcessor() and ContentProcessor(None): config or {}
NoConfig == [key \in {} |-> TRUE]

\* {**defaults, **overrides}
Merge(defaults, overrides) ==
    [key \in DOMAIN defaults \cup DOMAIN overrides |->
        IF key \in DOMAIN overrides THEN overrides[key] ELSE defaults[key]]

\* __init__(config): the attributes of the processor constructed.  No pattern
\* is compiled here.
init(config) ==
    LET final_config == Merge(DefaultConfig, config)
    IN  Return([noise_patterns         |-> final_config["noise_patterns"],
                german_exam_patterns   |-> final_config["german_patterns"],
                important_selectors    |-> final_config["important_selectors"],
                processing_options     |-> final_config["processing_options"],
                enable_noise_filtering |->
                    IF "enable_noise_filtering" \in DOMAIN final_config
                    THEN final_config["enable_noise_filtering"]
                    ELSE TRUE])

(***************************************************************************)
(* _filter_noise_from_text                                                 *)
(***************************************************************************)

\* for pattern in self.noise_patterns: filtered = re.sub(pattern, '', filtered, IGNORECASE)
\* The value of `filtered` after the loop over `patterns`: the last pattern is
\* applied to what the patterns before it left, and the first pattern that
\* raises ends the loop.
RECURSIVE ApplyPatterns(_, _)
ApplyPatterns(patterns, text) ==
    IF patterns = <<>> THEN Return(text)
    ELSE LET n        == Len(patterns)
             filtered == ApplyPatterns(SubSeq(patterns, 1, n - 1), text)
         IN  IF filtered.exc THEN filtered
             ELSE IF patterns[n] = Malformed THEN Raise(<<"re.error">>)
             ELSE Return(ReSub(patterns[n], <<>>, filtered.val, TRUE))

\* str.split('\n')
RECURSIVE SplitLines(_)
SplitLines(s) ==
    IF \E j \in 1..Len(s) : s[j] = "\n"
    THEN LET j == CHOOSE j \in 1..Len(s) : s[j] = "\n" /\ \A m \in 1..(j - 1) : s[m] # "\n"
         IN  <<SubSeq(s, 1, j - 1)>> \o SplitLines(SubSeq(s, j + 1, Len(s)))
    ELSE <<s>>

\* '\n'.join(lines)
RECURSIVE JoinLines(_)
JoinLines(lines) ==
    IF lines = <<>> THEN <<>>
    ELSE IF Len(lines) = 1 THEN Head(lines)
    ELSE Head(lines) \o <<"\n">> \o JoinLines(Tail(lines))

\* re.sub(r'\s+', ' ', line).strip()
CleanLine(line) == Strip(ReSub(<<SpacePlus>>, <<" ">>, line, FALSE))

\* The loop over lines: clean each line and keep the non-empty ones.
RECURSIVE CleanedLines(_)
CleanedLines(lines) ==
    IF lines = <<>> THEN <<>>
    ELSE LET line == CleanLine(Head(lines))
         IN  (IF line # <<>> THEN <<line>> ELSE <<>>) \o CleanedLines(Tail(lines))

NormalizeHtml(filtered) ==
    Strip(ReSub(<<NewlineOne, SpaceStar, NewlineOne, SpaceStar, NewlinePlus>>,
                <<"\n", "\n">>,
                ReSub(<<BlankPlus>>, <<" ">>, filtered, FALSE), FALSE))

NormalizeBodyText(filtered) == JoinLines(CleanedLines(SplitLines(filtered)))

NormalizePlain(filtered) == Strip(ReSub(<<SpacePlus>>, <<" ">>, filtered, FALSE))

NormalizeWhitespace(filtered, content_type) ==
    CASE content_type = "html"      -> NormalizeHtml(filtered)
      [] content_type = "body_text" -> NormalizeBodyText(filtered)
      [] OTHER                      -> NormalizePlain(filtered)

\* The try block of _filter_noise_from_text.
FilterNoiseBody(patterns, text, content_type) ==
    LET filtered == ApplyPatterns(patterns, text)
    IN  IF filtered.exc THEN filtered
        ELSE Return(NormalizeWhitespace(filtered.val, content_type))

\* The same, an error leaving the empty string.
FilterNoiseEmptyOnError(patterns, text, content_type) ==
    TryExcept(FilterNoiseBody(patterns, text, content_type), <<>>).val

\* _filter_noise_from_text(text, content_type): on any error the text unchanged.
FilterNoise(patterns, text, content_type) ==
    TryExcept(FilterNoiseBody(patterns, text, content_type), text).val


(***************************************************************************)
(* State                                                                   *)
(***************************************************************************)

VARIABLES
    enable_noise_filtering, \* self.enable_noise_filtering
    noise_patterns,         \* self.noise_patterns, by the name of the list
    german_exam_patterns,   \* self.german_exam_patterns
    important_selectors,    \* self.important_selectors
    processing_options,     \* self.processing_options
    earlier,                \* a snapshot the caller kept, with the page it was taken of
    driver,                 \* the Page Source: what its calls return, and which throw
    pc,                     \* where the process_page call in progress stands
    raw_content,            \* process_page: raw_content
    forms_info,             \* _extract_forms_info: forms_info
    buttons_info,           \* _extract_buttons_info: buttons_info
    links_info,             \* _extract_links_info: links_info
    elements,               \* the element list the current loop enumerates
    i,                      \* the current loop's index
    current_domain,         \* _extract_links_info: current_domain
    structured_content,     \* process_page: structured_content
    result                  \* what process_page returned: <<ProcessedContent>>, or <<>>

vars == <<enable_noise_filtering, noise_patterns, german_exam_patterns,
          important_selectors, processing_options, earlier, driver, pc, raw_content,
          forms_info, buttons_info, links_info, elements, i, current_domain,
          structured_content, result>>

(***************************************************************************)
(* The Page Source.  A call is named <<what, k>>, k the element's position *)
(* for calls on an element; driver.throws is the set of calls that throw.  *)
(***************************************************************************)

PageSourceCall == <<"page_source", 0>>
TitleCall      == <<"title", 0>>
RawUrlCall     == <<"current_url", 0>>
BodyCall       == <<"body", 0>>
FormsQuery     == <<"find_forms", 0>>
ButtonsQuery   == <<"find_buttons", 0>>
SubmitsQuery   == <<"find_submits", 0>>
LinksQuery     == <<"find_links", 0>>
LinksUrlCall   == <<"links_current_url", 0>>
FormCall(k)    == <<"form", k>>
ButtonCall(k)  == <<"button", k>>
LinkCall(k)    == <<"link", k>>

\* str(e) of the exception a call throws.
MessageOf(call) ==
    CASE call = PageSourceCall -> <<"E","s","r","c">>
      [] call = TitleCall      -> <<"E","t","t","l">>
      [] call = RawUrlCall     -> <<"E","u","r","l">>
      [] call = BodyCall       -> <<"E","b","d","y">>
      [] call = LinksQuery     -> <<"E","a">>
      [] call = LinksUrlCall   -> <<"E","u">>
      [] OTHER                 -> <<"E","e","l">>

\* The outcome of one driver call: its value, or the exception it throws.
Call(call, value) ==
    IF call \in driver.throws THEN Raise(MessageOf(call)) ELSE Return(value)

(***************************************************************************)
(* Raw extraction (_extract_raw_content and its helpers)                   *)
(***************************************************************************)

\* The first exception among the outcomes of statements run in order, if any.
FirstRaised(outcomes) ==
    LET j == CHOOSE j \in 1..Len(outcomes) :
                 outcomes[j].exc /\ \A m \in 1..(j - 1) : ~outcomes[m].exc
    IN  outcomes[j]

\* The same without the handler.
get_body_textUncaught == Call(BodyCall, Or(driver.body_text, <<>>))

\* _get_body_text: body.text or "", and "" when the body cannot be read.
get_body_text == TryExcept(Call(BodyCall, Or(driver.body_text, <<>>)), <<>>)

\* _extract_important_text
extract_important_text == Return(<<>>)

\* _extract_forms_html
extract_forms_html == Return(<<>>)

\* The same with every field treated as a title or URL.
ContentTypeOfPlain(key) == "text"

\* content_type_map
ContentTypeOf(key) ==
    CASE key = "full_html"      -> "html"
      [] key = "title"          -> "text"
      [] key = "url"            -> "text"
      [] key = "body_text"      -> "body_text"
      [] key = "important_text" -> "body_text"
      [] key = "forms_html"     -> "html"

\* The loop over raw_data.items() under `if self.enable_noise_filtering`.
ApplyNoiseFiltering(raw_data) ==
    IF enable_noise_filtering
    THEN [key \in DOMAIN raw_data |->
              FilterNoise(PatternsOf(noise_patterns), raw_data[key], ContentTypeOf(key))]
    ELSE raw_data

\* The try block of _extract_raw_content: the dict literal, then the filtering.
extract_raw_content_body ==
    LET source    == Call(PageSourceCall, driver.page_source)
        title     == Call(TitleCall, Or(driver.title, <<>>))
        url       == Call(RawUrlCall, Or(driver.current_url, <<>>))
        body      == get_body_text
        important == extract_important_text
        forms     == extract_forms_html
        outcomes  == <<source, title, url, body, important, forms>>
    IN  IF \E j \in 1..Len(outcomes) : outcomes[j].exc
        THEN FirstRaised(outcomes)
        ELSE Return(ApplyNoiseFiltering(
                 [full_html      |-> source.val,
                  title          |-> title.val,
                  url            |-> url.val,
                  body_text      |-> body.val,
                  important_text |-> important.val,
                  forms_html     |-> forms.val]))

\* The same without the handler: the exception reaches process_page.
extract_raw_contentUncaught == extract_raw_content_body

\* The same, the handler keeping what was read before the exception.
extract_raw_contentPartial ==
    LET body == extract_raw_content_body
    IN  TryExcept(body, [error |-> body.msg, full_html |-> driver.page_source])

\* _extract_raw_content: on an exception, {'error': str(e)}.
extract_raw_content ==
    LET body == extract_raw_content_body
    IN  TryExcept(body, [error |-> body.msg])

(***************************************************************************)
(* Structured extraction: the values its three sub-extractions compute     *)
(***************************************************************************)

ExtractionFailed ==
    <<"e","x","t","r","a","c","t","i","o","n","_","f","a","i","l","e","d">>

LinksExtractionFailed ==
    <<"l","i","n","k","s","_">> \o ExtractionFailed

DefaultMethod == <<"G","E","T">>

Http == <<"h","t","t","p">>

\* reg_keywords
RegKeywords ==
    << <<"a","n","m","e","l","d">>,
       <<"r","e","g","i","s","t","e","r">>,
       <<"r","e","g","i","s","t","r","a","t","i","o","n">>,
       <<"b","u","c","h","u","n","g">>,
       <<"e","n","r","o","l","l","m","e","n","t">>,
       <<"s","i","g","n","u","p">>,
       <<"e","i","n","s","c","h","r","e","i","b","u","n","g">> >>

\* all_interactive[:10]
MaxInteractive == 10

\* (...)[:100]
MaxButtonText == 100

\* The try block of the forms loop, for the form at index k (from 0).
form_info(k, form) ==
    LET read == Call(FormCall(k + 1), form)
    IN  IF read.exc THEN read
        ELSE Return([index         |-> k,
                     action        |-> Or(form.action, <<>>),
                     method        |-> Or(form.method, DefaultMethod),
                     id            |-> Or(form.id, <<>>),
                     class         |-> Or(form.class, <<>>),
                     inputs_count  |-> form.inputs,
                     buttons_count |-> form.buttons,
                     is_visible    |-> form.displayed,
                     text_content  |-> Strip(form.text)])

\* The same without the inner handler.
form_entryUncaught(k, form) == form_info(k, form)

\* One iteration of the forms loop: the record, or {index, error}.
form_entry(k, form) ==
    TryExcept(form_info(k, form), [index |-> k, error |-> ExtractionFailed])

\* The same without the handler.
extract_forms_info_exceptUncaught(raised) == raised

\* The outer handler of _extract_forms_info: return [].

extract_forms_info_except(raised) == TryExcept(raised, <<>>)

\* The try block of the buttons loop, for the element at index k (from 0).
button_info(k, element) ==
    LET read == Call(ButtonCall(k + 1), element)
    IN  IF read.exc THEN read
        ELSE Return([index      |-> k,
                     tag        |-> element.tag_name,
                     type       |-> Or(element.type, <<>>),
                     text       |-> Prefix(Or(Or(Strip(element.text), element.value), <<>>),
                                           MaxButtonText),
                     id         |-> Or(element.id, <<>>),
                     class      |-> Or(element.class, <<>>),
                     is_visible |-> element.displayed,
                     is_enabled |-> element.enabled])

\* One iteration of the buttons loop: the record, or {index, error}.
button_entry(k, element) ==
    TryExcept(button_info(k, element), [index |-> k, error |-> ExtractionFailed])

\* The same without the cut.
all_interactiveUncut(buttons, submits) == buttons \o submits

\* buttons + submits, cut to the first 10.

all_interactive(buttons, submits) == Prefix(buttons \o submits, MaxInteractive)

\* The outer handler of _extract_buttons_info: return [].
extract_buttons_info_except(raised) == TryExcept(raised, <<>>)

\* The same without the look for the current URL in href.
IsExternalByScheme(href, current) == StartsWith(href, Http)

\* href.startswith('http') and current_domain not in href
IsExternal(href, current) == StartsWith(href, Http) /\ ~Contains(href, current)

\* any(keyword in text_lower or keyword in href_lower for keyword in reg_keywords)
IsRegistration(href, text) ==
    \E j \in 1..Len(RegKeywords) :
        Contains(Lower(text), RegKeywords[j]) \/ Contains(Lower(href), RegKeywords[j])

\* The same with total_count left at 0.
links_info_initialZeroTotal(links) ==
    [total_count        |-> 0,
     with_href          |-> 0,
     external_links     |-> 0,
     registration_links |-> <<>>,
     all_links          |-> <<>>]

\* links_info as initialised before the loop.
links_info_initial(links) ==
    [total_count        |-> Len(links),
     with_href          |-> 0,
     external_links     |-> 0,
     registration_links |-> <<>>,
     all_links          |-> <<>>]

\* The same with the keyword test made for an anchor without href as well.
link_iteration_bodyKeywordsAnyHref(info, k, link, current) ==
    LET read == Call(LinkCall(k + 1), link)
        href  == Or(link.href, <<>>)
        text  == Strip(link.text)
        title == Or(link.title, <<>>)
        external     == href # <<>> /\ IsExternal(href, current)
        registration == IsRegistration(href, text)
        link_data == [index           |-> k,
                      href            |-> href,
                      text            |-> text,
                      title           |-> title,
                      target          |-> Or(link.target, <<>>),
                      is_external     |-> external,
                      is_registration |-> registration,
                      is_visible      |-> link.displayed]
    IN  IF read.exc THEN read
        ELSE Return(
            [total_count    |-> info.total_count,
             with_href      |-> info.with_href + (IF href # <<>> THEN 1 ELSE 0),
             external_links |-> info.external_links + (IF external THEN 1 ELSE 0),
             registration_links |->
                 IF registration
                 THEN Append(info.registration_links,
                             [index |-> k, text |-> text, href |-> href, title |-> title])
                 ELSE info.registration_links,
             all_links      |-> Append(info.all_links, link_data)])

\* The try block of the links loop for the anchor at index k (from 0):
\* links_info after it.
link_iteration_body(info, k, link, current) ==
    LET read == Call(LinkCall(k + 1), link)
        href  == Or(link.href, <<>>)
        text  == Strip(link.text)
        title == Or(link.title, <<>>)
        external     == href # <<>> /\ IsExternal(href, current)
        registration == href # <<>> /\ IsRegistration(href, text)
        link_data == [index           |-> k,
                      href            |-> href,
                      text            |-> text,
                      title           |-> title,
                      target          |-> Or(link.target, <<>>),
                      is_external     |-> external,
                      is_registration |-> registration,
                      is_visible      |-> link.displayed]
    IN  IF read.exc THEN read
        ELSE Return(
            [total_count    |-> info.total_count,
             with_href      |-> info.with_href + (IF href # <<>> THEN 1 ELSE 0),
             external_links |-> info.external_links + (IF external THEN 1 ELSE 0),
             registration_links |->
                 IF registration
                 THEN Append(info.registration_links,
                             [index |-> k, text |-> text, href |-> href, title |-> title])
                 ELSE info.registration_links,
             all_links      |-> Append(info.all_links, link_data)])

\* The same with with_href counted before the anchor is read.
link_iterationCountedFirst(info, k, link, current) ==
    LET body == link_iteration_body(info, k, link, current)
    IN  TryExcept(body,
                  [info EXCEPT !.with_href = @ + 1,
                               !.all_links =
                      Append(@, [index |-> k,
                                 error |-> ExtractionFailed \o <<":", " ">> \o body.msg])])

\* The same, a failed read leaving no record.
link_iterationDroppingFailed(info, k, link, current) ==
    TryExcept(link_iteration_body(info, k, link, current), info)

\* One iteration of the links loop; a failed read appends {index, error}.
link_iteration(info, k, link, current) ==
    LET body == link_iteration_body(info, k, link, current)
    IN  TryExcept(body,
                  [info EXCEPT !.all_links =
                      Append(@, [index |-> k,
                                 error |-> ExtractionFailed \o <<":", " ">> \o body.msg])])

\* The same without the handler.
extract_links_info_exceptUncaught(raised) == raised

\* The outer handler of _extract_links_info: {'error': 'links_extraction_failed: ...'}.
extract_links_info_except(raised) ==
    TryExcept(raised, [error |-> LinksExtractionFailed \o <<":", " ">> \o raised.msg])

\* ProcessedContent(raw=..., structured=...); the timestamp is not modelled.
ProcessedContent(raw, structured) == [raw |-> raw, structured |-> structured]

(***************************************************************************)
(* process_page, step by step                                              *)
(***************************************************************************)

NoResult == [unset |-> TRUE]

config  == <<enable_noise_filtering, noise_patterns, german_exam_patterns,
             important_selectors, processing_options>>
locals  == <<raw_content, forms_info, buttons_info, links_info, elements, i,
             current_domain, structured_content>>

\* An exception reaches the handler of process_page: both sections become
\* {'error': str(e)}.  pc = "raised" says the exception left process_page.
ProcessPageExcept(raised) ==
    LET handled == TryExcept(raised, ProcessedContent([error |-> raised.msg],
                                                      [error |-> raised.msg]))
    IN  IF handled.exc
        THEN pc' = "raised" /\ result' = NoResult
        ELSE pc' = "done" /\ result' = handled.val

\* An exception leaves a sub-extraction and reaches the handler of
\* _extract_structured_content: the section becomes {'error': str(e)}.
StructuredExcept(raised) ==
    LET handled == TryExcept(raised, [error |-> raised.msg])
    IN  IF handled.exc
        THEN ProcessPageExcept(handled) /\ structured_content' = structured_content
        ELSE structured_content' = handled.val /\ pc' = "return" /\ result' = result

\* A caller calls process_page(driver).
ProcessPage ==
    /\ pc \in {"idle", "done"}
    /\ pc' = "extract_raw"
    /\ raw_content' = NoResult
    /\ forms_info' = <<>>
    /\ buttons_info' = <<>>
    /\ links_info' = NoResult
    /\ elements' = <<>>
    /\ i' = 0
    /\ current_domain' = <<>>
    /\ structured_content' = NoResult
    /\ result' = NoResult
    /\ UNCHANGED <<config, earlier, driver>>

\* The same, the call switching noise filtering off for the calls after it.
ExtractRawContentSwitchingOff ==
    /\ pc = "extract_raw"
    /\ LET out == extract_raw_content
       IN  IF out.exc
           THEN ProcessPageExcept(out) /\ raw_content' = raw_content
           ELSE raw_content' = out.val /\ pc' = "find_forms" /\ result' = result
    /\ enable_noise_filtering' = FALSE
    /\ UNCHANGED <<noise_patterns, german_exam_patterns, important_selectors,
                   processing_options, earlier, driver, forms_info, buttons_info,
                   links_info, elements, i, current_domain, structured_content>>

\* Step 1: raw_content = self._extract_raw_content(driver)
ExtractRawContent ==
    /\ pc = "extract_raw"
    /\ LET out == extract_raw_content
       IN  IF out.exc
           THEN ProcessPageExcept(out) /\ raw_content' = raw_content
           ELSE raw_content' = out.val /\ pc' = "find_forms" /\ result' = result
    /\ UNCHANGED <<config, earlier, driver, forms_info, buttons_info, links_info, elements, i,
                   current_domain, structured_content>>

\* _extract_forms_info: forms = driver.find_elements(By.TAG_NAME, 'form')
FindForms ==
    /\ pc = "find_forms"
    /\ LET found == Call(FormsQuery, driver.forms)
           handled == extract_forms_info_except(found)
       IN  IF ~found.exc
           THEN /\ elements' = found.val
                /\ forms_info' = <<>>
                /\ pc' = "forms_loop"
                /\ UNCHANGED <<structured_content, result>>
           ELSE IF ~handled.exc
           THEN /\ forms_info' = handled.val
                /\ pc' = "find_buttons"
                /\ UNCHANGED <<elements, structured_content, result>>
           ELSE StructuredExcept(handled) /\ UNCHANGED <<elements, forms_info>>
    /\ i' = 0
    /\ UNCHANGED <<config, earlier, driver, raw_content, buttons_info, links_info, current_domain>>

\* One iteration of `for i, form in enumerate(forms)`.
FormsIteration ==
    /\ pc = "forms_loop"
    /\ i < Len(elements)
    /\ LET entry == form_entry(i, elements[i + 1])
           handled == extract_forms_info_except(entry)
       IN  IF ~entry.exc
           THEN /\ forms_info' = Append(forms_info, entry.val)
                /\ i' = i + 1
                /\ UNCHANGED <<pc, structured_content, result>>
           ELSE IF ~handled.exc
           THEN /\ forms_info' = handled.val
                /\ pc' = "find_buttons"
                /\ UNCHANGED <<i, structured_content, result>>
           ELSE StructuredExcept(handled) /\ UNCHANGED <<i, forms_info>>
    /\ UNCHANGED <<config, earlier, driver, raw_content, buttons_info, links_info, elements,
                   current_domain>>

\* return forms_info
FormsReturn ==
    /\ pc = "forms_loop"
    /\ i = Len(elements)
    /\ pc' = "find_buttons"
    /\ UNCHANGED <<config, earlier, driver, raw_content, forms_info, buttons_info, links_info,
                   elements, i, current_domain, structured_content, result>>

\* _extract_buttons_info: the two find_elements calls and the concatenation.
FindButtons ==
    /\ pc = "find_buttons"
    /\ LET buttons == Call(ButtonsQuery, driver.buttons)
           submits == Call(SubmitsQuery, driver.submits)
           found   == IF buttons.exc THEN buttons
                      ELSE IF submits.exc THEN submits
                      ELSE Return(all_interactive(buttons.val, submits.val))
           handled == extract_buttons_info_except(found)
       IN  IF ~found.exc
           THEN /\ elements' = found.val
                /\ buttons_info' = <<>>
                /\ pc' = "buttons_loop"
                /\ UNCHANGED <<structured_content, result>>
           ELSE IF ~handled.exc
           THEN /\ buttons_info' = handled.val
                /\ pc' = "find_links"
                /\ UNCHANGED <<elements, structured_content, result>>
           ELSE StructuredExcept(handled) /\ UNCHANGED <<elements, buttons_info>>
    /\ i' = 0
    /\ UNCHANGED <<config, earlier, driver, raw_content, forms_info, links_info, current_domain>>

\* One iteration of `for i, element in enumerate(all_interactive[:10])`.
ButtonsIteration ==
    /\ pc = "buttons_loop"
    /\ i < Len(elements)
    /\ LET entry == button_entry(i, elements[i + 1])
           handled == extract_buttons_info_except(entry)
       IN  IF ~entry.exc
           THEN /\ buttons_info' = Append(buttons_info, entry.val)
                /\ i' = i + 1
                /\ UNCHANGED <<pc, structured_content, result>>
           ELSE IF ~handled.exc
           THEN /\ buttons_info' = handled.val
                /\ pc' = "find_links"
                /\ UNCHANGED <<i, structured_content, result>>
           ELSE StructuredExcept(handled) /\ UNCHANGED <<i, buttons_info>>
    /\ UNCHANGED <<config, earlier, driver, raw_content, forms_info, links_info, elements,
                   current_domain>>

\* return buttons_info
ButtonsReturn ==
    /\ pc = "buttons_loop"
    /\ i = Len(elements)
    /\ pc' = "find_links"
    /\ UNCHANGED <<config, earlier, driver, raw_content, forms_info, buttons_info, links_info,
                   elements, i, current_domain, structured_content, result>>

\* _extract_links_info: find_elements, the initial links_info, current_domain.
FindLinks ==
    /\ pc = "find_links"
    /\ LET links   == Call(LinksQuery, driver.anchors)
           url     == Call(LinksUrlCall, driver.current_url)
           found   == IF links.exc THEN links ELSE IF url.exc THEN url ELSE links
           handled == extract_links_info_except(found)
       IN  IF ~found.exc
           THEN /\ elements' = found.val
                /\ links_info' = links_info_initial(found.val)
                /\ current_domain' = url.val
                /\ pc' = "links_loop"
                /\ UNCHANGED <<structured_content, result>>
           ELSE IF ~handled.exc
           THEN /\ links_info' = handled.val
                /\ pc' = "structured_return"
                /\ UNCHANGED <<elements, current_domain, structured_content, result>>
           ELSE /\ StructuredExcept(handled)
                /\ UNCHANGED <<elements, current_domain, links_info>>
    /\ i' = 0
    /\ UNCHANGED <<config, earlier, driver, raw_content, forms_info, buttons_info>>

\* One iteration of `for i, link in enumerate(links)`.
LinksIteration ==
    /\ pc = "links_loop"
    /\ i < Len(elements)
    /\ LET after == link_iteration(links_info, i, elements[i + 1], current_domain)
           handled == extract_links_info_except(after)
       IN  IF ~after.exc
           THEN /\ links_info' = after.val
                /\ i' = i + 1
                /\ UNCHANGED <<pc, structured_content, result>>
           ELSE IF ~handled.exc
           THEN /\ links_info' = handled.val
                /\ pc' = "structured_return"
                /\ UNCHANGED <<i, structured_content, result>>
           ELSE StructuredExcept(handled) /\ UNCHANGED <<i, links_info>>
    /\ UNCHANGED <<config, earlier, driver, raw_content, forms_info, buttons_info, elements,
                   current_domain>>

\* return links_info
LinksReturn ==
    /\ pc = "links_loop"
    /\ i = Len(elements)
    /\ pc' = "structured_return"
    /\ UNCHANGED <<config, earlier, driver, raw_content, forms_info, buttons_info, links_info,
                   elements, i, current_domain, structured_content, result>>

\* _extract_structured_content: return {'forms': ..., 'buttons': ..., 'links': ...}
StructuredReturn ==
    /\ pc = "structured_return"
    /\ structured_content' = [forms   |-> forms_info,
                              buttons |-> buttons_info,
                              links   |-> links_info]
    /\ pc' = "return"
    /\ UNCHANGED <<config, earlier, driver, raw_content, forms_info, buttons_info, links_info,
                   elements, i, current_domain, result>>

\* return ProcessedContent(raw=raw_content, structured=structured_content)
ReturnProcessedContent ==
    /\ pc = "return"
    /\ result' = ProcessedContent(raw_content, structured_content)
    /\ pc' = "done"
    /\ UNCHANGED <<config, earlier, driver, locals>>

Next ==
    \/ ProcessPage
    \/ ExtractRawContent
    \/ FindForms
    \/ FormsIteration
    \/ FormsReturn
    \/ FindButtons
    \/ ButtonsIteration
    \/ ButtonsReturn
    \/ FindLinks
    \/ LinksIteration
    \/ LinksReturn
    \/ StructuredReturn
    \/ ReturnProcessedContent

(***************************************************************************)
(* Pages                                                                   *)
(***************************************************************************)

DigitChars == <<"0","1","2","3","4","5","6","7","8","9">>

\* str(n)
RECURSIVE Numeral(_)
Numeral(n) ==
    IF n < 10 THEN <<DigitChars[n + 1]>>
    ELSE Numeral(n \div 10) \o <<DigitChars[(n % 10) + 1]>>

\* "<p>12:30  x\n\n\n\ny"
MarkupA == <<"<","p",">","1","2",":","3","0"," "," ","x","\n","\n","\n","\n","y">>

\* " Exam \n A1 "
TitleA == <<" ","E","x","a","m"," ","\n"," ","A","1"," ">>

\* "http://a.de"
UrlA == <<"h","t","t","p",":","/","/","a",".","d","e">>

\* "Frei \n\n cb=7 \nB1"
BodyA == <<"F","r","e","i"," ","\n","\n"," ","c","b","=","7"," ","\n","B","1">>

\* <form action="/register" method="POST">, 3 inputs, 1 button, " Submit "
FormRegister ==
    [action |-> <<"/","r","e","g","i","s","t","e","r">>,
     method |-> <<"P","O","S","T">>, id |-> None, class |-> None,
     inputs |-> 3, buttons |-> 1, displayed |-> TRUE,
     text |-> <<" ","S","u","b","m","i","t"," ">>]

\* A hidden <form id="f"> with no other attribute and no content.
FormBare ==
    [action |-> None, method |-> None, id |-> <<"f">>, class |-> None,
     inputs |-> 0, buttons |-> 0, displayed |-> FALSE, text |-> <<>>]

\* The k-th <button> of the document.
ButtonElement(k) ==
    [tag_name |-> <<"b","u","t","t","o","n">>, type |-> None,
     text |-> <<" ","O","K"," ">>, value |-> None,
     id |-> <<"b">> \o Numeral(k), class |-> None,
     displayed |-> TRUE, enabled |-> TRUE]

\* The k-th <input type="submit"> of the document.
SubmitElement(k) ==
    [tag_name |-> <<"i","n","p","u","t">>, type |-> <<"s","u","b","m","i","t">>,
     text |-> <<>>, value |-> <<"G","o">>,
     id |-> <<"s">> \o Numeral(k), class |-> None,
     displayed |-> TRUE, enabled |-> FALSE]

\* <a>Anmeldung</a>: registration text, no href.
AnchorTextOnly ==
    [href |-> None, text |-> <<"A","n","m","e","l","d","u","n","g">>,
     title |-> None, target |-> None, displayed |-> TRUE]

\* <a href="http://a.de/x"> Home </a>
AnchorInternal ==
    [href |-> UrlA \o <<"/","x">>, text |-> <<" ","H","o","m","e"," ">>,
     title |-> <<"t">>, target |-> None, displayed |-> TRUE]

\* <a href="http://b.de/Register" target="_blank">B</a>
AnchorExternalRegister ==
    [href |-> <<"h","t","t","p",":","/","/","b",".","d","e","/",
                "R","e","g","i","s","t","e","r">>,
     text |-> <<"B">>, title |-> None, target |-> <<"_","b","l","a","n","k">>,
     displayed |-> TRUE]

\* <a href="/signup"></a>, hidden
AnchorRelativeSignup ==
    [href |-> <<"/","s","i","g","n","u","p">>, text |-> <<>>,
     title |-> None, target |-> None, displayed |-> FALSE]

\* <a href="http://b.de">Info</a>
AnchorExternal ==
    [href |-> <<"h","t","t","p",":","/","/","b",".","d","e">>,
     text |-> <<"I","n","f","o">>, title |-> None, target |-> None,
     displayed |-> TRUE]

\* <a href="http://b.de?http://a.de">Back</a>
AnchorRedirect ==
    [href |-> <<"h","t","t","p",":","/","/","b",".","d","e","?">> \o UrlA,
     text |-> <<"B","a","c","k">>, title |-> None, target |-> None,
     displayed |-> TRUE]

SeqsUpTo(S, n) == UNION {[1..m -> S] : m \in 0..n}

SubsetsUpTo(S, n) == {T \in SUBSET S : Cardinality(T) <= n}

\* A page: what the driver's calls return when they do not throw.
Page(title, url, body, forms, nbuttons, nsubmits, anchors) ==
    [page_source |-> MarkupA,
     title       |-> title,
     current_url |-> url,
     body_text   |-> body,
     forms       |-> forms,
     buttons     |-> [k \in 1..nbuttons |-> ButtonElement(k)],
     submits     |-> [k \in 1..nsubmits |-> SubmitElement(k)],
     anchors     |-> anchors,
     throws      |-> {}]

Min(a, b) == IF a < b THEN a ELSE b

\* The calls process_page can make on a page.
GetterCalls == {PageSourceCall, TitleCall, RawUrlCall, BodyCall}

QueryCalls == {FormsQuery, ButtonsQuery, SubmitsQuery, LinksQuery, LinksUrlCall}

FormCalls(page) == {FormCall(k) : k \in 1..Len(page.forms)}

ButtonCalls(page) ==
    {ButtonCall(k) : k \in 1..Min(MaxInteractive, Len(page.buttons) + Len(page.submits))}

LinkCalls(page) == {LinkCall(k) : k \in 1..Len(page.anchors)}

CallsOf(page) ==
    GetterCalls \cup QueryCalls \cup FormCalls(page) \cup ButtonCalls(page)
        \cup LinkCalls(page)

\* A page whose throwing calls are one of the given sets.
WithFaults(page, faults) == {[page EXCEPT !.throws = throws] : throws \in faults}

\* The processor as constructed from one of `configs`, before any call;
\* `drivers` are the Page Sources considered.
Constructed(configs, drivers) ==
    /\ \E c \in configs :
           LET self == init(c)
           IN  /\ ~self.exc
               /\ noise_patterns = self.val.noise_patterns
               /\ german_exam_patterns = self.val.german_exam_patterns
               /\ important_selectors = self.val.important_selectors
               /\ processing_options = self.val.processing_options
               /\ enable_noise_filtering = self.val.enable_noise_filtering
    /\ earlier = NoResult
    /\ driver \in drivers
    /\ pc = "idle"
    /\ raw_content = NoResult
    /\ forms_info = <<>>
    /\ buttons_info = <<>>
    /\ links_info = NoResult
    /\ elements = <<>>
    /\ i = 0
    /\ current_domain = <<>>
    /\ structured_content = NoResult
    /\ result = NoResult

\* The same, `switch` giving the values of the enable_noise_filtering override.
InitWith(switch, drivers) ==
    Constructed({[enable_noise_filtering |-> s] : s \in switch}, drivers)

\* Forms and anchors of a page with n of each.
FormsOfPage(n) == [k \in 1..n |-> IF k % 2 = 1 THEN FormRegister ELSE FormBare]

AnchorsOfPage(n) ==
    [k \in 1..n |-> IF k % 2 = 1 THEN AnchorExternalRegister ELSE AnchorInternal]

(***************************************************************************)
(* Spec: small pages; any few calls throw, or every call throws            *)
(***************************************************************************)

\* Elements of each kind on a page.
MaxElements == 1

\* Calls that throw in one pass (unless all do).
MaxFaults == 2

SmallPages ==
    {Page(TitleA, UrlA, BodyA, FormsOfPage(n), n, n, AnchorsOfPage(n)) :
        n \in 0..MaxElements}

FewFaults(page) == SubsetsUpTo(CallsOf(page), MaxFaults) \cup {CallsOf(page)}

Init ==
    InitWith(BOOLEAN, UNION {WithFaults(page, FewFaults(page)) : page \in SmallPages})

Spec == Init /\ [][Next]_vars

(***************************************************************************)
(* SpecQueries: every combination of throwing getters and element queries  *)
(***************************************************************************)

QueryPages ==
    {Page(title, UrlA, body, FormsOfPage(MaxElements), MaxElements, MaxElements,
          AnchorsOfPage(MaxElements)) :
        title \in {None, TitleA}, body \in {BodyA}}

QueryFaults(page) == SUBSET (GetterCalls \cup QueryCalls)

InitQueries ==
    InitWith(BOOLEAN, UNION {WithFaults(page, QueryFaults(page)) : page \in QueryPages})

SpecQueries == InitQueries /\ [][Next]_vars

(***************************************************************************)
(* SpecForms: every sequence of forms, every pattern of failing forms      *)
(***************************************************************************)

MaxForms == 3

FormPages ==
    {Page(TitleA, UrlA, BodyA, forms, 1, 1, AnchorsOfPage(1)) :
        forms \in SeqsUpTo({FormRegister, FormBare}, MaxForms)}

FormFaults(page) == SUBSET (FormCalls(page) \cup {FormsQuery})

InitForms ==
    InitWith({FALSE}, UNION {WithFaults(page, FormFaults(page)) : page \in FormPages})

SpecForms == InitForms /\ [][Next]_vars

(***************************************************************************)
(* SpecButtons: up to more than 10 buttons and submit inputs               *)
(***************************************************************************)

MaxButtonElements == 11

MaxSubmitElements == 2

\* Button elements and queries that throw in one pass.
MaxButtonFaults == 1

ButtonPages ==
    {Page(TitleA, UrlA, BodyA, FormsOfPage(1), nbuttons, nsubmits, AnchorsOfPage(1)) :
        nbuttons \in 0..MaxButtonElements, nsubmits \in 0..MaxSubmitElements}

ButtonFaults(page) ==
    SubsetsUpTo(ButtonCalls(page) \cup {ButtonsQuery, SubmitsQuery}, MaxButtonFaults)

InitButtons ==
    InitWith({FALSE}, UNION {WithFaults(page, ButtonFaults(page)) : page \in ButtonPages})

SpecButtons == InitButtons /\ [][Next]_vars

(***************************************************************************)
(* SpecLinks: every sequence of anchors, every pattern of failing anchors  *)
(***************************************************************************)

MaxAnchors == 2

AnchorKinds ==
    {AnchorTextOnly, AnchorInternal, AnchorExternalRegister, AnchorRelativeSignup,
     AnchorExternal, AnchorRedirect}

LinkPages ==
    {Page(TitleA, url, BodyA, FormsOfPage(1), 1, 1, anchors) :
        url \in {UrlA, <<>>}, anchors \in SeqsUpTo(AnchorKinds, MaxAnchors)}

LinkFaults(page) == SUBSET (LinkCalls(page) \cup {LinksQuery, LinksUrlCall})

InitLinks ==
    InitWith({FALSE}, UNION {WithFaults(page, LinkFaults(page)) : page \in LinkPages})

SpecLinks == InitLinks /\ [][Next]_vars

(***************************************************************************)
(* SpecConfig: processors constructed with and without overrides, among    *)
(* them a noise pattern list that holds a malformed regular expression     *)
(***************************************************************************)

Configs ==
    {NoConfig,
     [enable_noise_filtering |-> FALSE],
     [noise_patterns |-> "broken"],
     [noise_patterns |-> "broken", enable_noise_filtering |-> FALSE]}

ConfigPages ==
    {Page(title, UrlA, BodyA, FormsOfPage(n), n, n, AnchorsOfPage(n)) :
        title \in {None, TitleA}, n \in 0..MaxElements}

\* At most one getter throws.
ConfigFaults(page) == SubsetsUpTo(GetterCalls, 1)

InitConfig ==
    Constructed(Configs,
                UNION {WithFaults(page, ConfigFaults(page)) : page \in ConfigPages})

SpecConfig == InitConfig /\ [][Next]_vars

(***************************************************************************)
(* SpecNormalize: the Text Normalizer on pages whose markup, title and     *)
(* body text are one string, put together from pieces of noise             *)
(***************************************************************************)

\* Pieces a text is put together from.
MaxPieces == 3

\* "1", "11:11", "1:11", "cb=1", "c", "b=2", " ", "\n", "x"
Pieces ==
    { <<"1">>, <<"1","1",":","1","1">>, <<"1",":","1","1">>,
      <<"c","b","=","1">>, <<"c">>, <<"b","=","2">>,
      <<" ">>, <<"\n">>, <<"x">> }

\* "PHPSESSID=abc123;"
SessionToken ==
    <<"P","H","P","S","E","S","S","I","D","=","a","b","c","1","2","3",";">>

\* What stands before and after the session token: "", "PHPS", "x " and
\* "", "ESSID=abc123;", " y".
BeforeToken == { <<>>, <<"P","H","P","S">>, <<"x"," ">> }

AfterToken ==
    { <<>>, <<"E","S","S","I","D","=","a","b","c","1","2","3",";">>, <<" ","y">> }

\* s1 + s2 + ...
RECURSIVE Concat(_)
Concat(ss) == IF ss = <<>> THEN <<>> ELSE Head(ss) \o Concat(Tail(ss))

PieceTexts == {Concat(ss) : ss \in SeqsUpTo(Pieces, MaxPieces)}

SessionTexts ==
    {before \o SessionToken \o after : before \in BeforeToken, after \in AfterToken}

\* A page whose markup, title and body text all are `text`.
PageOfText(text) ==
    [Page(text, UrlA, text, FormsOfPage(1), 1, 1, AnchorsOfPage(1))
        EXCEPT !.page_source = text]

NormalizePages == {PageOfText(text) : text \in PieceTexts \cup SessionTexts}

InitNormalize == Constructed({NoConfig}, NormalizePages)

SpecNormalize == InitNormalize /\ [][Next]_vars

(***************************************************************************)
(* SpecCalls: one processor, called on one page after another by a caller  *)
(* that keeps a snapshot and compares a later one with it                  *)
(***************************************************************************)

CallPages ==
    {Page(TitleA, UrlA, BodyA, FormsOfPage(n), n, n, AnchorsOfPage(n)) :
        n \in 0..MaxElements}

\* No call throws, or the markup getter does, or the first anchor does.
CallFaults(page) ==
    {{}, {PageSourceCall}} \cup {{call} : call \in {LinkCall(1)} \cap LinkCalls(page)}

CallDrivers == UNION {WithFaults(page, CallFaults(page)) : page \in CallPages}

InitCalls == Constructed(Configs, CallDrivers)

\* The caller keeps the snapshot the call returned, with the page it was
\* taken of; `other` is the page of the latest call made since.
KeepSnapshot ==
    /\ pc = "done"
    /\ earlier' = [driver |-> driver, result |-> result, other |-> NoResult]
    /\ UNCHANGED <<config, driver, pc, locals, result>>

\* The caller drops what the last call returned and turns to a page.
Navigate ==
    /\ pc \in {"idle", "done"}
    /\ driver' \in CallDrivers
    /\ pc' = "idle"
    /\ result' = NoResult
    /\ earlier' = IF pc = "done" /\ "other" \in DOMAIN earlier
                  THEN [earlier EXCEPT !.other = driver]
                  ELSE earlier
    /\ UNCHANGED <<config, locals>>

NextCalls ==
    \/ Next
    \/ KeepSnapshot
    \/ Navigate

SpecCalls == InitCalls /\ [][NextCalls]_vars

(***************************************************************************)
(* What a page's elements are expected to yield, written out value by value *)
(***************************************************************************)

Throws(call) == call \in driver.throws

RawKeys == {"full_html", "title", "url", "body_text", "important_text", "forms_html"}

StructuredKeys == {"forms", "buttons", "links"}

LinksKeys ==
    {"total_count", "with_href", "external_links", "registration_links", "all_links"}

IsErrorMapping(m) == DOMAIN m = {"error"}

\* "<p> x\n\ny": MarkupA without the time 12:30, blanks and newlines collapsed.
MarkupANormalized == <<"<","p",">"," ","x","\n","\n","y">>

\* "Exam A1"
TitleANormalized == <<"E","x","a","m"," ","A","1">>

\* "Frei\nB1": BodyA without cb=7 and without its empty lines.
BodyANormalized == <<"F","r","e","i","\n","B","1">>

ExpectedFullHtml == IF enable_noise_filtering THEN MarkupANormalized ELSE MarkupA

ExpectedTitle ==
    IF driver.title = None THEN <<>>
    ELSE IF enable_noise_filtering THEN TitleANormalized ELSE TitleA

ExpectedUrl == UrlA

ExpectedBodyText == IF enable_noise_filtering THEN BodyANormalized ELSE BodyA

ElementError(index) == [index |-> index, error |-> ExtractionFailed]

ExpectedForm(form, index) ==
    IF form = FormRegister
    THEN [index |-> index, action |-> <<"/","r","e","g","i","s","t","e","r">>,
          method |-> <<"P","O","S","T">>, id |-> <<>>, class |-> <<>>,
          inputs_count |-> 3, buttons_count |-> 1, is_visible |-> TRUE,
          text_content |-> <<"S","u","b","m","i","t">>]
    ELSE [index |-> index, action |-> <<>>, method |-> <<"G","E","T">>,
          id |-> <<"f">>, class |-> <<>>, inputs_count |-> 0, buttons_count |-> 0,
          is_visible |-> FALSE, text_content |-> <<>>]

\* The entry at position k (from 1) of the buttons, nbuttons <button>s on the page.
ExpectedButton(k, nbuttons) ==
    IF k <= nbuttons
    THEN [index |-> k - 1, tag |-> <<"b","u","t","t","o","n">>, type |-> <<>>,
          text |-> <<"O","K">>, id |-> <<"b">> \o Numeral(k), class |-> <<>>,
          is_visible |-> TRUE, is_enabled |-> TRUE]
    ELSE [index |-> k - 1, tag |-> <<"i","n","p","u","t">>,
          type |-> <<"s","u","b","m","i","t">>, text |-> <<"G","o">>,
          id |-> <<"s">> \o Numeral(k - nbuttons), class |-> <<>>,
          is_visible |-> TRUE, is_enabled |-> FALSE]

\* forms is what the forms on the page yield, failing forms included.
FormsAsExtracted(forms) ==
    /\ Len(forms) = Len(driver.forms)
    /\ \A k \in 1..Len(forms) :
           forms[k] = IF Throws(FormCall(k)) THEN ElementError(k - 1)
                      ELSE ExpectedForm(driver.forms[k], k - 1)

\* buttons is what the first 10 of the page's buttons and submit inputs yield.
ButtonsAsExtracted(buttons) ==
    /\ Len(buttons) = Min(10, Len(driver.buttons) + Len(driver.submits))
    /\ \A k \in 1..Len(buttons) :
           buttons[k] = IF Throws(ButtonCall(k)) THEN ElementError(k - 1)
                        ELSE ExpectedButton(k, Len(driver.buttons))

\* links is a links result with one record per anchor of the page.
LinksAsExtracted(links) ==
    /\ DOMAIN links = LinksKeys
    /\ links.total_count = Len(driver.anchors)
    /\ Len(links.all_links) = Len(driver.anchors)
    /\ \A k \in 1..Len(links.all_links) :
           /\ links.all_links[k].index = k - 1
           /\ ~Throws(LinkCall(k)) =>
                  /\ "error" \notin DOMAIN links.all_links[k]
                  /\ links.all_links[k].href =
                         (IF driver.anchors[k].href = None THEN <<>>
                          ELSE driver.anchors[k].href)

FormsQueryOk == ~Throws(FormsQuery)

ButtonsQueryOk == ~Throws(ButtonsQuery) /\ ~Throws(SubmitsQuery)

LinksQueryOk == ~Throws(LinksQuery) /\ ~Throws(LinksUrlCall)

RawGettersOk == ~Throws(PageSourceCall) /\ ~Throws(TitleCall) /\ ~Throws(RawUrlCall)

(***************************************************************************)
(* Properties                                                              *)
(***************************************************************************)

\* C1: whatever the Page Source does, also when every call on it and on its
\* elements throws, no exception leaves process_page, a call in progress always
\* has a next step (a loop is at an element or at its end), and what the call
\* returns is a ProcessedContent (a raw and a structured section).
C1_NeverRaises ==
    /\ pc # "raised"
    /\ pc \in {"forms_loop", "buttons_loop", "links_loop"} => i <= Len(elements)
    /\ pc = "done" => DOMAIN result = {"raw", "structured"}

C1_Witness ==
    /\ pc = "done"
    /\ driver.throws = CallsOf(driver)
    /\ Len(driver.forms) > 0
    /\ IsErrorMapping(result.raw)

\* C2: when the markup getter throws, raw is exactly {error: <its message>},
\* and structured keeps its three keys: forms, buttons and links are what the
\* page's elements yield whenever the calls of their own sub-extraction succeed
\* (for links: the anchor query and the read of the current URL).
C2_RawFailureKeepsStructured ==
    (pc = "done" /\ Throws(PageSourceCall)) =>
        /\ result.raw = [error |-> MessageOf(PageSourceCall)]
        /\ DOMAIN result.structured = StructuredKeys
        /\ FormsQueryOk => FormsAsExtracted(result.structured.forms)
        /\ ButtonsQueryOk => ButtonsAsExtracted(result.structured.buttons)
        /\ LinksQueryOk => LinksAsExtracted(result.structured.links)

C2_Witness ==
    /\ pc = "done"
    /\ driver.throws = {PageSourceCall}
    /\ result.raw = [error |-> <<"E","s","r","c">>]
    /\ Len(result.structured.forms) > 0
    /\ Len(result.structured.buttons) > 0
    /\ result.structured.links.total_count > 0

\* C3: when the element query of one sub-extraction throws and no other call of
\* the structured phase does, that sub-extraction yields its empty container
\* ([] for forms, [] for buttons, {error: ...} for links) and the two others
\* yield what the page's elements give.
C3_SubExtractionsIndependent ==
    pc = "done" =>
        /\ (~FormsQueryOk /\ ButtonsQueryOk /\ LinksQueryOk) =>
               /\ DOMAIN result.structured = StructuredKeys
               /\ result.structured.forms = <<>>
               /\ ButtonsAsExtracted(result.structured.buttons)
               /\ LinksAsExtracted(result.structured.links)
        /\ (FormsQueryOk /\ ~ButtonsQueryOk /\ LinksQueryOk) =>
               /\ DOMAIN result.structured = StructuredKeys
               /\ FormsAsExtracted(result.structured.forms)
               /\ result.structured.buttons = <<>>
               /\ LinksAsExtracted(result.structured.links)
        /\ (FormsQueryOk /\ ButtonsQueryOk /\ Throws(LinksQuery) /\ ~Throws(LinksUrlCall)) =>
               /\ DOMAIN result.structured = StructuredKeys
               /\ FormsAsExtracted(result.structured.forms)
               /\ ButtonsAsExtracted(result.structured.buttons)
               /\ result.structured.links =
                      [error |-> LinksExtractionFailed \o <<":", " ">> \o MessageOf(LinksQuery)]

C3_Witness ==
    /\ pc = "done"
    /\ driver.throws = {FormsQuery}
    /\ Len(driver.forms) > 0
    /\ result.structured.forms = <<>>
    /\ Len(result.structured.buttons) > 0
    /\ Len(result.structured.links.all_links) > 0

\* C4 as stated: when the queries for forms, for buttons and for anchors all
\* throw, structured is a single-key mapping {error: <message>}.
C4_AsStated ==
    (pc = "done" /\ Throws(FormsQuery) /\ Throws(ButtonsQuery) /\ Throws(LinksQuery)) =>
        IsErrorMapping(result.structured)

\* The raw section is what the getters alone decide: {error: <message of the
\* first getter that throws>}, or the six fields.
RawUnaffected(raw) ==
    raw = IF Throws(PageSourceCall) THEN [error |-> MessageOf(PageSourceCall)]
          ELSE IF Throws(TitleCall) THEN [error |-> MessageOf(TitleCall)]
          ELSE IF Throws(RawUrlCall) THEN [error |-> MessageOf(RawUrlCall)]
          ELSE [full_html      |-> ExpectedFullHtml,
                title          |-> ExpectedTitle,
                url            |-> ExpectedUrl,
                body_text      |-> IF Throws(BodyCall) THEN <<>> ELSE ExpectedBodyText,
                important_text |-> <<>>,
                forms_html     |-> <<>>]

\* C4, amended: when the queries for forms, for buttons and for anchors all
\* throw, structured keeps its three keys, with forms = [], buttons = [] and
\* links = {error: "links_extraction_failed: <message>"}; it has no top-level
\* error key, and the raw section is what the getters alone decide.
C4_AllQueriesFail ==
    (pc = "done" /\ Throws(FormsQuery) /\ Throws(LinksQuery)
                 /\ (Throws(ButtonsQuery) \/ Throws(SubmitsQuery))) =>
        /\ result.structured =
               [forms   |-> <<>>,
                buttons |-> <<>>,
                links   |-> [error |-> LinksExtractionFailed \o <<":", " ">>
                                           \o MessageOf(LinksQuery)]]
        /\ RawUnaffected(result.raw)

C4_Witness ==
    /\ pc = "done"
    /\ driver.throws = {FormsQuery, ButtonsQuery, LinksQuery}
    /\ DOMAIN result.structured = StructuredKeys
    /\ IsErrorMapping(result.structured.links)
    /\ DOMAIN result.raw = RawKeys

\* C9: the raw mapping has exactly the six keys full_html, title, url,
\* body_text, important_text, forms_html, or exactly the key error; it is the
\* error mapping, with the message of the first failing getter, whenever the
\* markup, title or URL getter throws, and the six-key mapping otherwise.
C9_RawAllOrNothing ==
    /\ pc \notin {"idle", "extract_raw"} =>
           /\ DOMAIN raw_content = RawKeys \/ DOMAIN raw_content = {"error"}
           /\ IsErrorMapping(raw_content) <=> ~RawGettersOk
           /\ Throws(PageSourceCall) => raw_content.error = MessageOf(PageSourceCall)
    /\ pc = "done" => result.raw = raw_content

C9_Witness ==
    /\ pc = "done"
    /\ ~Throws(PageSourceCall)
    /\ Throws(RawUrlCall)
    /\ ~Throws(TitleCall)
    /\ result.raw = [error |-> <<"E","u","r","l">>]

\* C10: when reading the body throws while markup, title and URL are readable,
\* raw is not an error mapping, body_text is "" and full_html, title and url
\* hold the values read (normalized when noise filtering is on); important_text
\* and forms_html are "" in every raw mapping that is not an error mapping.
C10_BodyFailureRecovered ==
    pc = "done" =>
        /\ (Throws(BodyCall) /\ RawGettersOk) =>
               /\ ~IsErrorMapping(result.raw)
               /\ result.raw.body_text = <<>>
               /\ result.raw.full_html = ExpectedFullHtml
               /\ result.raw.title = ExpectedTitle
               /\ result.raw.url = ExpectedUrl
        /\ ~IsErrorMapping(result.raw) =>
               result.raw.important_text = <<>> /\ result.raw.forms_html = <<>>

C10_Witness ==
    /\ pc = "done"
    /\ driver.throws = {BodyCall}
    /\ enable_noise_filtering
    /\ result.raw.body_text = <<>>
    /\ result.raw.title = <<"E","x","a","m"," ","A","1">>
    /\ result.raw.full_html # <<>>

\* The invariant of a links result that has no top-level error.
LinksConsistent(links) ==
    DOMAIN links = LinksKeys =>
        /\ links.with_href <= links.total_count
        /\ links.external_links <= links.with_href
        /\ \A j \in 1..Len(links.registration_links) :
               \E k \in 1..Len(links.all_links) :
                   /\ links.all_links[k].index = links.registration_links[j].index
                   /\ "is_registration" \in DOMAIN links.all_links[k]
                   /\ links.all_links[k].is_registration

\* C5: for every sequence of anchors and every set of failing anchors, a links
\* result without a top-level error (while it is built and as returned) has
\* with_href <= total_count and external_links <= with_href, and every entry of
\* registration_links has an all_links record of the same index whose
\* is_registration is true.
C5_LinksInvariant ==
    /\ LinksConsistent(links_info)
    /\ (pc = "done" /\ DOMAIN result.structured = StructuredKeys) =>
           LinksConsistent(result.structured.links)

C5_Witness ==
    /\ pc = "done"
    /\ Throws(LinkCall(1))
    /\ DOMAIN result.structured.links = LinksKeys
    /\ Len(result.structured.links.registration_links) = 1
    /\ result.structured.links.external_links = 1
    /\ result.structured.links.with_href = 1
    /\ result.structured.links.total_count = 2

C7_ButtonsBounded ==
    /\ Len(buttons_info) <= 10
    /\ pc = "done" =>
           LET buttons == result.structured.buttons
           IN  /\ Len(buttons) <= 10
               /\ \A k \in 1..Len(buttons) : buttons[k].index = k - 1
               /\ ButtonsQueryOk =>
                      /\ ButtonsAsExtracted(buttons)
                      /\ \A k \in 1..Len(buttons) :
                             ("tag" \in DOMAIN buttons[k]
                                 /\ buttons[k].tag = <<"i","n","p","u","t">>)
                                 => Len(driver.buttons) < 10

C7_Witness ==
    /\ pc = "done"
    /\ Len(driver.buttons) = 9
    /\ Len(driver.submits) = 2
    /\ driver.throws = {}
    /\ Len(result.structured.buttons) = 10
    /\ result.structured.buttons[9].id = <<"b","9">>
    /\ result.structured.buttons[10].id = <<"s","1">>
    /\ result.structured.buttons[10].index = 9

\* C8: when the form query succeeds, forms has one entry per form of the page
\* in document order, the entry at position k with index k; a form whose read
\* fails yields {index, error: extraction_failed} at its position, and every
\* other form, also after a failed one, yields its full record.
C8_FormsEnumerated ==
    (pc = "done" /\ FormsQueryOk) => FormsAsExtracted(result.structured.forms)

C8_Witness ==
    /\ pc = "done"
    /\ Len(driver.forms) = 3
    /\ driver.throws = {FormCall(1)}
    /\ result.structured.forms[1] = [index |-> 0, error |-> ExtractionFailed]
    /\ result.structured.forms[2].index = 1
    /\ result.structured.forms[2].method \in {<<"G","E","T">>, <<"P","O","S","T">>}
    /\ DOMAIN result.structured.forms[3] = DOMAIN ExpectedForm(FormBare, 2)

\* Whether a pattern list holds a regular expression that does not compile.
HasMalformed(patterns) == \E j \in 1..Len(patterns) : patterns[j] = Malformed

\* C11 as stated: a malformed regular expression among the configured noise
\* patterns makes the construction of the processor fail, so no processor
\* that was constructed holds one, and none is left for a later process_page
\* call to meet.
C11_AsStated == ~HasMalformed(PatternsOf(noise_patterns))

\* C12 as stated: the body_text of a raw mapping, which is the output of the
\* normalizer for content type body_text, is a fixed point of it: normalizing
\* it once more with the same patterns gives the same string.
C12_AsStated ==
    (pc \notin {"idle", "extract_raw"} /\ enable_noise_filtering
        /\ ~IsErrorMapping(raw_content)) =>
        FilterNoise(PatternsOf(noise_patterns), raw_content.body_text, "body_text")
            = raw_content.body_text

\* Whether s contains, in any letter case, one of the registration keywords.
HasKeyword(s) == \E j \in 1..Len(RegKeywords) : Contains(Lower(s), RegKeywords[j])

\* The records of all_links that are not {index, error} records.
FullRecords(links) ==
    {k \in 1..Len(links.all_links) : "error" \notin DOMAIN links.all_links[k]}

\* C13 as stated: in a returned links result, a link that was read has
\* is_registration true, and a record in registration_links, if and only if
\* its href or its text contains one of the keywords, also when its href is
\* empty.
C13_AsStated ==
    (pc = "done" /\ DOMAIN result.structured = StructuredKeys
        /\ DOMAIN result.structured.links = LinksKeys) =>
        LET links == result.structured.links
        IN  \A k \in FullRecords(links) :
                LET record == links.all_links[k]
                IN  /\ record.is_registration <=>
                           (HasKeyword(record.href) \/ HasKeyword(record.text))
                    /\ record.is_registration <=>
                           \E j \in 1..Len(links.registration_links) :
                               links.registration_links[j].index = record.index

\* C14: in a returned raw mapping that is not an error mapping, with noise
\* filtering enabled full_html is the normalizer's output for the markup under
\* html, title and url are its output for the title and the URL under plain,
\* body_text and important_text are its output for the body text and for ""
\* under body_text, and forms_html is its output for "" under html; for the
\* pages considered these outputs are "<p> x\n\ny", "Exam A1" and "Frei\nB1".
\* With noise filtering disabled every field is the value read, unchanged.
C14_FilteringFollowsSwitch ==
    (pc = "done" /\ ~IsErrorMapping(result.raw)) =>
        LET raw    == result.raw
            title  == IF driver.title = None THEN <<>> ELSE driver.title
            body   == IF Throws(BodyCall) THEN <<>> ELSE driver.body_text
        IN  IF enable_noise_filtering
            THEN /\ raw.full_html =
                        FilterNoise(DefaultNoisePatterns, driver.page_source, "html")
                 /\ raw.full_html = MarkupANormalized
                 /\ raw.title = FilterNoise(DefaultNoisePatterns, title, "plain")
                 /\ raw.title = IF title = <<>> THEN <<>> ELSE TitleANormalized
                 /\ raw.url = FilterNoise(DefaultNoisePatterns, driver.current_url, "plain")
                 /\ raw.body_text = FilterNoise(DefaultNoisePatterns, body, "body_text")
                 /\ raw.body_text = IF body = <<>> THEN <<>> ELSE BodyANormalized
                 /\ raw.important_text = FilterNoise(DefaultNoisePatterns, <<>>, "body_text")
                 /\ raw.forms_html = FilterNoise(DefaultNoisePatterns, <<>>, "html")
            ELSE raw = [full_html      |-> driver.page_source,
                        title          |-> title,
                        url            |-> driver.current_url,
                        body_text      |-> body,
                        important_text |-> <<>>,
                        forms_html     |-> <<>>]

C14_Witness ==
    /\ pc = "done"
    /\ enable_noise_filtering
    /\ driver.throws = {}
    /\ driver.title = TitleA
    /\ result.raw.full_html = <<"<","p",">"," ","x","\n","\n","y">>
    /\ result.raw.title = <<"E","x","a","m"," ","A","1">>
    /\ result.raw.body_text = <<"F","r","e","i","\n","B","1">>
    /\ result.raw.url = UrlA

\* C15: no step of a process_page call, and no sequence of calls, changes the
\* attributes set at construction (noise patterns, vocabulary, selectors,
\* options, filtering switch); and a call on a page returns the raw and
\* structured sections an earlier call on the same page returned, whatever
\* pages were processed in between.
C15_Stateless ==
    /\ [][UNCHANGED config]_vars
    /\ []((pc = "done" /\ "driver" \in DOMAIN earlier /\ earlier.driver = driver) =>
              result = earlier.result)

C15_Witness ==
    /\ pc = "done"
    /\ "driver" \in DOMAIN earlier
    /\ earlier.driver = driver
    /\ "throws" \in DOMAIN earlier.other
    /\ earlier.other # driver
    /\ result = earlier.result
    /\ enable_noise_filtering
    /\ DOMAIN result.raw = RawKeys
    /\ Len(result.structured.links.all_links) = 1

\* C16 as stated: with noise filtering enabled and the default patterns, when
\* the string read (as markup, as title and as body text) contains the token
\* "PHPSESSID=abc123;", none of full_html (html), title (plain) and body_text
\* (body_text) of the raw mapping contains it.
C16_AsStated ==
    (pc \notin {"idle", "extract_raw"} /\ enable_noise_filtering
        /\ noise_patterns = "default" /\ ~IsErrorMapping(raw_content)
        /\ Contains(driver.page_source, SessionToken)) =>
        /\ ~Contains(raw_content.full_html, SessionToken)
        /\ ~Contains(raw_content.title, SessionToken)
        /\ ~Contains(raw_content.body_text, SessionToken)

\* C17: in a returned links result, a link that was read has is_external true
\* if and only if its href begins with "http" and does not contain the
\* current URL; of the anchors considered, on the page http://a.de these are
\* the two with an href at http://b.de that does not name http://a.de, and on
\* a page whose current URL is "" none is.  external_links is the number of
\* records with is_external true.
C17_ExternalClassification ==
    (pc = "done" /\ DOMAIN result.structured = StructuredKeys
        /\ DOMAIN result.structured.links = LinksKeys) =>
        LET links == result.structured.links
        IN  /\ \A k \in FullRecords(links) :
                   LET record == links.all_links[k]
                   IN  /\ record.is_external <=>
                              /\ Len(record.href) >= 4
                              /\ SubSeq(record.href, 1, 4) = <<"h","t","t","p">>
                              /\ ~Contains(record.href, driver.current_url)
                       /\ record.is_external <=>
                              /\ driver.current_url = UrlA
                              /\ driver.anchors[k] \in {AnchorExternalRegister, AnchorExternal}
                       /\ driver.current_url = <<>> => ~record.is_external
            /\ links.external_links =
                   Cardinality({k \in FullRecords(links) : links.all_links[k].is_external})

C17_Witness ==
    /\ pc = "done"
    /\ driver.throws = {}
    /\ driver.current_url = UrlA
    /\ driver.anchors = <<AnchorExternal, AnchorRedirect>>
    /\ result.structured.links.all_links[1].is_external
    /\ ~result.structured.links.all_links[2].is_external
    /\ result.structured.links.external_links = 1

\* C18: with noise filtering enabled and a pattern list whose second pattern
\* cannot be applied, the normalizer returns its input, not touched by the
\* first pattern nor by the whitespace rules, for markup (html), title and URL
\* (plain) and body text (body_text): the raw mapping holds the six values as
\* read, it is no error mapping, and neither is the structured section.
C18_NormalizerFailureRecovered ==
    (pc = "done" /\ enable_noise_filtering /\ noise_patterns = "broken"
        /\ RawGettersOk) =>
        /\ result.raw =
               [full_html      |-> <<"<","p",">","1","2",":","3","0"," "," ","x",
                                     "\n","\n","\n","\n","y">>,
                title          |-> IF driver.title = None THEN <<>>
                                   ELSE <<" ","E","x","a","m"," ","\n"," ","A","1"," ">>,
                url            |-> <<"h","t","t","p",":","/","/","a",".","d","e">>,
                body_text      |-> IF Throws(BodyCall) THEN <<>>
                                   ELSE <<"F","r","e","i"," ","\n","\n"," ","c","b","=","7",
                                          " ","\n","B","1">>,
                important_text |-> <<>>,
                forms_html     |-> <<>>]
        /\ DOMAIN result.structured = StructuredKeys

C18_Witness ==
    /\ pc = "done"
    /\ enable_noise_filtering
    /\ HasMalformed(PatternsOf(noise_patterns))
    /\ driver.throws = {}
    /\ driver.title = TitleA
    /\ result.raw.body_text = BodyA
    /\ result.raw.title = TitleA
    /\ result.raw.full_html = MarkupA
    /\ Len(result.structured.forms) = 1

\* The text of an anchor of the pages considered, trimmed.
ExpectedLinkText(anchor) ==
    CASE anchor = AnchorTextOnly         -> <<"A","n","m","e","l","d","u","n","g">>
      [] anchor = AnchorInternal         -> <<"H","o","m","e">>
      [] anchor = AnchorExternalRegister -> <<"B">>
      [] anchor = AnchorRelativeSignup   -> <<>>
      [] anchor = AnchorExternal         -> <<"I","n","f","o">>
      [] anchor = AnchorRedirect         -> <<"B","a","c","k">>

\* C19: while the links loop runs, all_links holds one record for each anchor
\* passed, the record at position k (from 0) with index k; in a returned links
\* result without a top-level error all_links has total_count records, one
\* for each anchor of the page in document order: at position k the
\* {index: k, error} record if reading the k-th anchor failed, and else the
\* full record of the k-th anchor, with index k.
C19_AllLinksComplete ==
    /\ pc = "links_loop" =>
           /\ Len(links_info.all_links) = i
           /\ \A k \in 1..i : links_info.all_links[k].index = k - 1
    /\ (pc = "done" /\ DOMAIN result.structured = StructuredKeys
           /\ DOMAIN result.structured.links = LinksKeys) =>
           LET links == result.structured.links
           IN  /\ Len(links.all_links) = links.total_count
               /\ links.total_count = Len(driver.anchors)
               /\ \A k \in 1..Len(links.all_links) :
                      LET record == links.all_links[k]
                      IN  /\ record.index = k - 1
                          /\ IF Throws(LinkCall(k))
                             THEN DOMAIN record = {"index", "error"}
                             ELSE /\ DOMAIN record =
                                         {"index", "href", "text", "title", "target",
                                          "is_external", "is_registration", "is_visible"}
                                  /\ record.text = ExpectedLinkText(driver.anchors[k])
                                  /\ record.is_visible = driver.anchors[k].displayed

C19_Witness ==
    /\ pc = "done"
    /\ driver.anchors = <<AnchorInternal, AnchorExternal>>
    /\ driver.throws = {LinkCall(1)}
    /\ result.structured.links.total_count = 2
    /\ Len(result.structured.links.all_links) = 2
    /\ "error" \in DOMAIN result.structured.links.all_links[1]
    /\ result.structured.links.all_links[1].index = 0
    /\ result.structured.links.all_links[2].index = 1
    /\ result.structured.links.all_links[2].text = <<"I","n","f","o">>

\* Whether a record of all_links is a full record with is_registration true.
IsRegistrationRecord(record) ==
    "is_registration" \in DOMAIN record /\ record.is_registration

\* What a links result without top-level error has to satisfy for C20.
CountersAgree(links) ==
    LET flagged == SelectSeq(links.all_links, IsRegistrationRecord)
    IN  /\ links.with_href =
               Cardinality({k \in FullRecords(links) : links.all_links[k].href # <<>>})
        /\ links.external_links =
               Cardinality({k \in FullRecords(links) : links.all_links[k].is_external})
        /\ links.registration_links =
               [j \in 1..Len(flagged) |->
                   [index |-> flagged[j].index, text |-> flagged[j].text,
                    href  |-> flagged[j].href,  title |-> flagged[j].title]]
        /\ \A k \in FullRecords(links) :
               links.all_links[k].href = <<>> =>
                   /\ ~links.all_links[k].is_external
                   /\ ~links.all_links[k].is_registration

\* C20: in a links result without a top-level error, while it is built and
\* as returned, with_href is the number of full records with a non-empty
\* href, external_links the number of records with is_external true,
\* registration_links the sequence of (index, text, href, title) of the
\* records with is_registration true, in their order; and a record with an
\* empty href has neither flag.
C20_CountersAgree ==
    /\ DOMAIN links_info = LinksKeys => CountersAgree(links_info)
    /\ (pc = "done" /\ DOMAIN result.structured = StructuredKeys
           /\ DOMAIN result.structured.links = LinksKeys) =>
           CountersAgree(result.structured.links)

C20_Witness ==
    /\ pc = "done"
    /\ driver.current_url = UrlA
    /\ driver.anchors = <<AnchorExternalRegister, AnchorTextOnly>>
    /\ driver.throws = {}
    /\ result.structured.links.with_href = 1
    /\ result.structured.links.external_links = 1
    /\ result.structured.links.registration_links =
           << [index |-> 0, text |-> <<"B">>,
               href |-> <<"h","t","t","p",":","/","/","b",".","d","e","/",
                          "R","e","g","i","s","t","e","r">>,
               title |-> <<>>] >>
    /\ ~result.structured.links.all_links[2].is_registration

=============================================================================
